---- MODULE Spec2Model ----
(***************************************************************************)
(* Model of webdriver-macos.py: the polling loop (continuous_scraping),    *)
(* the page processor (process_page_content) with its carry-over of the    *)
(* current product, the name inference (find_product_name), the variant    *)
(* search over the registry (products_data) and the CSV store.             *)
(*                                                                         *)
(* Python's None is modelled by the empty string: every use the code makes *)
(* of an optional value is a truthiness test (`x or 'N/A'`, `any([...])`,  *)
(* `if not current_product`), under which None and '' behave alike.        *)
(* Python list indices are 0-based, sequence indices here are 1-based.     *)
(***************************************************************************)
EXTENDS Integers, Sequences, FiniteSets, TLC

\* ------------------------------------------------------------------ bounds
\* Longest page text, in lines.
MaxLines == 3
\* Number of navigations the user performs in the browser.
MaxNav == 1

\* ------------------------------------------------------------- environment
None == ""

URLs == {"u1", "u2"}

\* The lines a page text is made of.
NameLine == "Protein Bar"
BlankLine == " "
CaloriesLine == "Calories: 200"
ProteinLine == "Protein: 10g"
FullLineA == "100 calories, 5g protein, 20g carbs, 3g fat, serving size: one bar"
FullLineB == "250 calories, 9g protein, 30g carbs, 8g fat"

Vocabulary ==
    {BlankLine, NameLine, CaloriesLine, ProteinLine, FullLineA, FullLineB}

PageTexts == UNION {[1..n -> Vocabulary] : n \in 1..MaxLines}

\* ------------------------------------------------------------ pure helpers
Max(a, b) == IF a >= b THEN a ELSE b
Min(a, b) == IF a <= b THEN a ELSE b

\* str.strip() on the lines of the vocabulary.
strip(line) == IF line = BlankLine THEN "" ELSE line

\* any(char.isdigit() for char in line) on the lines of the vocabulary.
has_digit(line) ==
    line \in {CaloriesLine, ProteinLine, FullLineA, FullLineB}

\* What the ordered pattern lists of NUTRITION_PATTERNS find in a line: the
\* first number inside the first matching pattern's span, or None.
extract_number(text, field) ==
    CASE text = CaloriesLine /\ field = "calories" -> "200"
      [] text = ProteinLine /\ field = "protein" -> "10"
      [] text = FullLineA /\ field = "calories" -> "100"
      [] text = FullLineA /\ field = "protein" -> "5"
      [] text = FullLineA /\ field = "carbs" -> "20"
      [] text = FullLineA /\ field = "fat" -> "3"
      [] text = FullLineB /\ field = "calories" -> "250"
      [] text = FullLineB /\ field = "protein" -> "9"
      [] text = FullLineB /\ field = "carbs" -> "30"
      [] text = FullLineB /\ field = "fat" -> "8"
      [] OTHER -> None

\* The serving-size span with its label removed, or None.
extract_serving_size(text) ==
    IF text = FullLineA THEN "one bar" ELSE None

\* The five extractions of lines 172-177 on one stripped line.
Extracted(line) ==
    [calories |-> extract_number(line, "calories"),
     protein |-> extract_number(line, "protein"),
     carbs |-> extract_number(line, "carbs"),
     fat |-> extract_number(line, "fat"),
     serving_size |-> extract_serving_size(line)]

\* any([calories, protein, carbs, fat, serving_size])
any_found(v) ==
    \/ v.calories # None
    \/ v.protein # None
    \/ v.carbs # None
    \/ v.fat # None
    \/ v.serving_size # None

\* Python's `x or default`.
Or(x, default) == IF x # None THEN x ELSE default

\* dict.get(key, default)
Get(d, key, default) == IF key \in DOMAIN d THEN d[key] ELSE default

window_size == 5

\* The filter of lines 115 and 123.
is_candidate(line) ==
    /\ strip(line) # ""
    /\ Len(strip(line)) > 3
    /\ ~has_digit(strip(line))

\* The qualifying lines of ls[lo..hi], stripped, in page order.
Candidates(ls, lo, hi) ==
    LET kept == SelectSeq(SubSeq(ls, lo, hi), is_candidate)
    IN [k \in 1..Len(kept) |-> strip(kept[k])]

find_product_name(ls, current_index) ==
    LET previous == Candidates(ls, Max(1, current_index - window_size),
                               current_index - 1)
        following ==
            IF previous = <<>> /\ current_index < Len(ls)
            THEN Candidates(ls, current_index + 1,
                            Min(Len(ls), current_index + window_size - 1))
            ELSE <<>>
        potential_names == previous \o following
    IN IF potential_names # <<>>
       THEN potential_names[Len(potential_names)]
       ELSE None

\* ---------------------------------------------------------------- registry
EmptyRegistry == [n \in {} |-> None]

\* f"{base_name} (Variant {suffix})"
VariantName(base_name, suffix) ==
    base_name \o " (Variant " \o ToString(suffix) \o ")"

\* The comparison string of line 186, built from the extracted values.
current_values_of(v) ==
    "cal" \o Or(v.calories, "NA") \o "_p" \o Or(v.protein, "NA")
        \o "_c" \o Or(v.carbs, "NA") \o "_f" \o Or(v.fat, "NA")

\* The comparison string of lines 192 and 199, built from a stored record.
stored_values_of(data) ==
    "cal" \o Get(data, "calories", "NA") \o "_p" \o Get(data, "protein", "NA")
        \o "_c" \o Get(data, "carbs", "NA") \o "_f" \o Get(data, "fat", "NA")

\* Mutant: the search never reuses a variant, it walks to the first free slot.
RECURSIVE variant_search_fresh(_, _, _, _)
variant_search_fresh(pd, base_name, current_values, suffix) ==
    IF VariantName(base_name, suffix) \in DOMAIN pd
    THEN variant_search_fresh(pd, base_name, current_values, suffix + 1)
    ELSE VariantName(base_name, suffix)

\* The while/else loop of lines 196-208.
RECURSIVE variant_search(_, _, _, _)
variant_search(pd, base_name, current_values, suffix) ==
    IF VariantName(base_name, suffix) \in DOMAIN pd
    THEN IF stored_values_of(pd[VariantName(base_name, suffix)]) = current_values
         THEN VariantName(base_name, suffix)
         ELSE variant_search(pd, base_name, current_values, suffix + 1)
    ELSE VariantName(base_name, suffix)

\* Mutant: the record always goes under the base name.
effective_name_base(pd, base_name, v) == base_name

\* Mutant: the variant search starts at suffix 2.
effective_name_from_two(pd, base_name, v) ==
    IF base_name \in DOMAIN pd
       /\ stored_values_of(pd[base_name]) # current_values_of(v)
    THEN variant_search(pd, base_name, current_values_of(v), 2)
    ELSE base_name

\* The name the record is stored under (lines 187-208).
effective_name(pd, base_name, v) ==
    IF base_name \in DOMAIN pd
       /\ stored_values_of(pd[base_name]) # current_values_of(v)
    THEN variant_search(pd, base_name, current_values_of(v), 1)
    ELSE base_name

\* Mutant: an absent field is stored as it was extracted, as None.
product_entry_raw(name, v, now, url) ==
    [name |-> name,
     calories |-> v.calories,
     protein |-> v.protein,
     carbs |-> v.carbs,
     fat |-> v.fat,
     serving_size |-> v.serving_size,
     last_updated |-> now,
     source_url |-> url]

\* The record of lines 211-220.
product_entry(name, v, now, url) ==
    [name |-> name,
     calories |-> Or(v.calories, "N/A"),
     protein |-> Or(v.protein, "N/A"),
     carbs |-> Or(v.carbs, "N/A"),
     fat |-> Or(v.fat, "N/A"),
     serving_size |-> Or(v.serving_size, "N/A"),
     last_updated |-> now,
     source_url |-> url]

\* Mutant: the registry is replaced by the one entry written.
upsert_only(pd, name, entry) == [n \in {name} |-> entry]

\* products_data[name] = entry
upsert(pd, name, entry) ==
    [n \in DOMAIN pd \cup {name} |-> IF n = name THEN entry ELSE pd[n]]

\* Mutant: only the rows written since the last save are saved.
save_to_csv_new_rows(pd) ==
    {pd[n] : n \in {m \in DOMAIN pd :
                       \A k \in DOMAIN pd :
                           pd[k].last_updated <= pd[m].last_updated}}

\* The rows DataFrame(list(products_data.values())).to_csv(...) writes.
save_to_csv(pd) == {pd[n] : n \in DOMAIN pd}

\* ------------------------------------------------------------------- state
VARIABLES
    pc,                      \* position of the polling loop
    browser_url,             \* driver.current_url, changed by the user
    nav_count,               \* navigations performed so far
    last_url,
    current_url,
    products_data,           \* the in-memory registry
    csv_file,                \* rows of nutritional_info.csv
    lines,                   \* page_text.split('\n')
    i,                       \* index of the line the for loop is at
    current_product,
    products_found_on_page,
    result,                  \* value process_page_content returns
    history,                 \* how each invocation so far ended
    registry_at_entry,       \* products_data when the invocation began
    interrupted              \* a KeyboardInterrupt was delivered

loop_vars == <<pc, last_url, current_url>>
page_vars == <<lines, i, current_product, products_found_on_page>>
vars == <<pc, browser_url, nav_count, last_url, current_url, products_data,
          csv_file, lines, i, current_product, products_found_on_page,
          result, history, registry_at_entry, interrupted>>

\* The invocation of process_page_content under way or last finished; its
\* number is the clock time.strftime is read from: invocations are seconds
\* apart, the lines of one page are not.
page_no == Len(history)

\* How that invocation ended: "running", "saved", "save_failed", "nothing",
\* "exception" (left through the except clause), "aborted" (the same, with
\* lines of the page still unprocessed); "none" before the first one.
outcome == IF history = <<>> THEN "none" ELSE history[Len(history)]

Ended(how) == [history EXCEPT ![Len(history)] = how]

\* continuous_scraping up to the first iteration of `while True`; there is no
\* nutritional_info.csv yet, so load_existing_data returns {}.
Init ==
    /\ pc = "poll"
    /\ browser_url = "u1"
    /\ nav_count = 0
    /\ last_url = None
    /\ current_url = None
    /\ products_data = EmptyRegistry
    /\ csv_file = {}
    /\ lines = <<>>
    /\ i = 1
    /\ current_product = None
    /\ products_found_on_page = 0
    /\ result = 0
    /\ history = <<>>
    /\ registry_at_entry = EmptyRegistry
    /\ interrupted = FALSE

\* The user navigates to another page. The loop reads the URL at line 256
\* only, so a navigation at any later point of a cycle is observed exactly as
\* one made just before the next poll.
Navigate ==
    /\ pc \in {"poll", "wait"}
    /\ nav_count < MaxNav
    /\ browser_url' \in URLs \ {browser_url}
    /\ nav_count' = nav_count + 1
    /\ UNCHANGED <<loop_vars, page_vars, products_data, csv_file, result,
                   history, registry_at_entry, interrupted>>

\* Lines 256-259: read the URL and compare it with the last one processed;
\* reading it can raise, which the handler of line 268 catches.
Poll ==
    /\ pc = "poll"
    /\ \/ /\ current_url' = browser_url
          /\ pc' = IF browser_url # last_url THEN "wait" ELSE "sleep"
       \/ /\ pc' = "error"
          /\ UNCHANGED current_url
    /\ UNCHANGED <<browser_url, nav_count, last_url, page_vars, products_data,
                   csv_file, result, history, registry_at_entry, interrupted>>

\* Lines 261 and 264: wait_for_content returns True, returns False after a
\* timeout (the page is skipped, last_url is still recorded), or raises.
WaitForContent ==
    /\ pc = "wait"
    /\ \/ pc' = "process" /\ UNCHANGED last_url
       \/ pc' = "sleep" /\ last_url' = current_url
       \/ pc' = "error" /\ UNCHANGED last_url
    /\ UNCHANGED <<browser_url, nav_count, current_url, page_vars,
                   products_data, csv_file, result, history,
                   registry_at_entry, interrupted>>

\* Mutant: the except clause returns the count reached so far.
except_result_found(found) == found

\* Lines 237-239: what the except clause returns.
except_result(found) == 0

\* Lines 154-163: read the page text and split it, or fail in the driver and
\* leave through the except clause of line 237.
ReadPage(texts) ==
    /\ pc = "process"
    /\ registry_at_entry' = products_data
    /\ \/ /\ lines' \in texts
          /\ i' = 1
          /\ current_product' = None
          /\ products_found_on_page' = 0
          /\ history' = Append(history, "running")
          /\ pc' = "lines"
          /\ UNCHANGED result
       \/ /\ result' = except_result(0)
          /\ history' = Append(history, "exception")
          /\ pc' = "return"
          /\ UNCHANGED page_vars
    /\ UNCHANGED <<browser_url, nav_count, last_url, current_url,
                   products_data, csv_file, interrupted>>

\* Mutant: a line no name is found for is filed under a placeholder name.
attributed_product_or_unknown(cp, ls, index) ==
    IF cp # None THEN cp
    ELSE IF find_product_name(ls, index) # None
         THEN find_product_name(ls, index)
         ELSE "Unknown Product"

\* Lines 181-182: the product a data-bearing line is attributed to.
attributed_product(cp, ls, index) ==
    IF cp = None THEN find_product_name(ls, index) ELSE cp

\* Lines 226-228: the carry-over after a line without nutritional data.
after_uninformative(cp) == None

\* Lines 167-169: the carry-over after a line that is empty once stripped.
after_blank(cp) == cp

\* Lines 166-228: one iteration of the for loop. The print of line 222 writes
\* the scraped product name and can raise an encoding error after the registry
\* was written, which ends the invocation at line 237.
ProcessLine ==
    /\ pc = "lines"
    /\ i <= Len(lines)
    /\ LET line == strip(lines[i])
           v == Extracted(line)
           base_name == attributed_product(current_product, lines, i)
           name == effective_name(products_data, base_name, v)
       IN \/ /\ line = ""
             /\ current_product' = after_blank(current_product)
             /\ i' = i + 1
             /\ UNCHANGED <<pc, products_data, products_found_on_page,
                            result, history>>
          \/ /\ line # ""
             /\ ~any_found(v)
             /\ current_product' = after_uninformative(current_product)
             /\ i' = i + 1
             /\ UNCHANGED <<pc, products_data, products_found_on_page,
                            result, history>>
          \/ /\ line # ""
             /\ any_found(v)
             /\ base_name = None
             /\ current_product' = base_name
             /\ i' = i + 1
             /\ UNCHANGED <<pc, products_data, products_found_on_page,
                            result, history>>
          \/ /\ line # ""
             /\ any_found(v)
             /\ base_name # None
             /\ products_data' =
                    upsert(products_data, name,
                           product_entry(name, v, page_no, current_url))
             /\ current_product' = name
             /\ products_found_on_page' = products_found_on_page + 1
             /\ \/ /\ i' = i + 1
                   /\ UNCHANGED <<pc, result, history>>
                \/ /\ result' = except_result(products_found_on_page + 1)
                   /\ history' = Ended(IF i < Len(lines) THEN "aborted"
                                                        ELSE "exception")
                   /\ pc' = "return"
                   /\ UNCHANGED i
    /\ UNCHANGED <<browser_url, nav_count, last_url, current_url, csv_file,
                   lines, registry_at_entry, interrupted>>

\* Lines 230-236, with save_to_csv (141-149) inlined: after the last line the
\* registry is saved if anything was found. A failing save is caught inside
\* save_to_csv and leaves the file as it was or truncated. The messages
\* printed here hold no scraped text and do not fail.
FinishPage ==
    /\ pc = "lines"
    /\ i > Len(lines)
    /\ pc' = "return"
    /\ \/ /\ products_found_on_page > 0
          /\ csv_file' = save_to_csv(products_data)
          /\ history' = Ended("saved")
          /\ result' = products_found_on_page
       \/ /\ products_found_on_page > 0
          /\ csv_file' \in {csv_file, {}}
          /\ history' = Ended("save_failed")
          /\ result' = products_found_on_page
       \/ /\ products_found_on_page = 0
          /\ history' = Ended("nothing")
          /\ result' = products_found_on_page
          /\ UNCHANGED csv_file
    /\ UNCHANGED <<browser_url, nav_count, last_url, current_url,
                   products_data, page_vars, registry_at_entry, interrupted>>

\* Mutant: the loop does not record the URL it has processed.
ReturnToLoopForgets ==
    /\ pc = "return"
    /\ pc' = "sleep"
    /\ lines' = <<>>
    /\ i' = 1
    /\ current_product' = None
    /\ products_found_on_page' = 0
    /\ result' = 0
    /\ registry_at_entry' = EmptyRegistry
    /\ UNCHANGED <<browser_url, nav_count, last_url, current_url,
                   products_data, csv_file, history, interrupted>>

\* Lines 262-264: process_page_content has returned; its locals are gone and
\* the caller drops the value it returned.
ReturnToLoop ==
    /\ pc = "return"
    /\ last_url' = current_url
    /\ pc' = "sleep"
    /\ lines' = <<>>
    /\ i' = 1
    /\ current_product' = None
    /\ products_found_on_page' = 0
    /\ result' = 0
    /\ registry_at_entry' = EmptyRegistry
    /\ UNCHANGED <<browser_url, nav_count, current_url, products_data,
                   csv_file, history, interrupted>>

\* Line 266.
Sleep ==
    /\ pc = "sleep"
    /\ pc' = "poll"
    /\ UNCHANGED <<browser_url, nav_count, last_url, current_url, page_vars,
                   products_data, csv_file, result, history,
                   registry_at_entry, interrupted>>

\* Mutant: the handler of the loop body gives up and leaves the loop.
MonitorErrorStops ==
    /\ pc = "error"
    /\ pc' = "stopped"
    /\ UNCHANGED <<browser_url, nav_count, last_url, current_url, page_vars,
                   products_data, csv_file, result, history,
                   registry_at_entry, interrupted>>

\* Lines 268-270: the handler of the loop body logs, waits and retries.
MonitorError ==
    /\ pc = "error"
    /\ pc' = "poll"
    /\ UNCHANGED <<browser_url, nav_count, last_url, current_url, page_vars,
                   products_data, csv_file, result, history,
                   registry_at_entry, interrupted>>

\* Lines 272-282: Ctrl+C ends the loop and the process; what was in memory
\* is discarded, the file stays.
Interrupt ==
    /\ pc # "stopped"
    /\ pc' = "stopped"
    /\ interrupted' = TRUE
    /\ last_url' = None
    /\ current_url' = None
    /\ products_data' = EmptyRegistry
    /\ lines' = <<>>
    /\ i' = 1
    /\ current_product' = None
    /\ products_found_on_page' = 0
    /\ result' = 0
    /\ registry_at_entry' = EmptyRegistry
    /\ UNCHANGED <<browser_url, nav_count, csv_file, history>>

Next ==
    \/ Navigate
    \/ Poll
    \/ WaitForContent
    \/ ReadPage(PageTexts)
    \/ ProcessLine
    \/ FinishPage
    \/ ReturnToLoop
    \/ Sleep
    \/ MonitorError
    \/ Interrupt

Spec == Init /\ [][Next]_vars

\* The page texts of the liveness check: those without the two full lines.
LoopTexts ==
    {t \in PageTexts :
        \A k \in 1..Len(t) : t[k] \in {BlankLine, NameLine, CaloriesLine}}

LoopNext ==
    \/ Navigate
    \/ Poll
    \/ WaitForContent
    \/ ReadPage(LoopTexts)
    \/ ProcessLine
    \/ FinishPage
    \/ ReturnToLoop
    \/ Sleep
    \/ MonitorError
    \/ Interrupt

\* The loop is the only thread: whenever it is not interrupted, its next
\* statement runs. Navigation and Ctrl+C are the user's and need not happen.
FairSpec ==
    /\ Init
    /\ [][LoopNext]_vars
    /\ WF_vars(Poll)
    /\ WF_vars(WaitForContent)
    /\ WF_vars(ReadPage(LoopTexts))
    /\ WF_vars(ProcessLine)
    /\ WF_vars(FinishPage)
    /\ WF_vars(ReturnToLoop)
    /\ WF_vars(Sleep)
    /\ WF_vars(MonitorError)

\* ================================================================== claims
\* The for loop stands at a line it has not processed yet.
AtLine == pc = "lines" /\ i <= Len(lines)

\* What the extractor finds on the line the loop stands at.
CurValues == Extracted(strip(lines[i]))

\* The loop stands at a data-bearing line that gets a product name.
Reconciling ==
    /\ AtLine
    /\ any_found(CurValues)
    /\ attributed_product(current_product, lines, i) # None

\* The name the reconcile of the current line starts from.
CurBase == attributed_product(current_product, lines, i)

\* This step is the reconcile of the current line.
ReconcileStep ==
    /\ Reconciling
    /\ products_found_on_page' = products_found_on_page + 1

\* A stored record holds exactly the value-set v (absent fields as sentinel).
HoldsValues(data, v) ==
    /\ data.calories = Or(v.calories, "N/A")
    /\ data.protein = Or(v.protein, "N/A")
    /\ data.carbs = Or(v.carbs, "N/A")
    /\ data.fat = Or(v.fat, "N/A")
    /\ data.serving_size = Or(v.serving_size, "N/A")

\* C1: reconciling a (name, values) pair again, when the entry under the name
\* already stores exactly these values (some of them possibly absent), goes to
\* the entry of the name itself: no registry key is added, no variant is
\* created, and the entry still stores the values.
C1_Idempotence ==
    [][(/\ ReconcileStep
        /\ CurBase \in DOMAIN products_data
        /\ HoldsValues(products_data[CurBase], CurValues))
       => (/\ DOMAIN products_data' = DOMAIN products_data
           /\ current_product' = CurBase
           /\ HoldsValues(products_data'[CurBase], CurValues))]_vars

\* The number of numeric fields a value-set has.
NumericFields == {"calories", "protein", "carbs", "fat"}
FoundFields(v) == {f \in NumericFields : v[f] # None}

\* A page made of a product-name line followed by data-bearing lines that each
\* carry one numeric field, no two the same.
IsMergePage(ls) ==
    /\ Len(ls) >= 2
    /\ is_candidate(ls[1])
    /\ \A k \in 2..Len(ls) :
           /\ Cardinality(FoundFields(Extracted(strip(ls[k])))) = 1
           /\ Extracted(strip(ls[k])).serving_size = None
    /\ \A j, k \in 2..Len(ls) :
           j # k => FoundFields(Extracted(strip(ls[j])))
                        # FoundFields(Extracted(strip(ls[k])))

\* The value of field f on such a page, or the sentinel.
MergedField(ls, f) ==
    IF \E k \in 2..Len(ls) : Extracted(strip(ls[k]))[f] # None
    THEN Extracted(strip(ls[CHOOSE k \in 2..Len(ls) :
                                  Extracted(strip(ls[k]))[f] # None]))[f]
    ELSE "N/A"

\* C2: once the first page, a name line followed by single-field lines, has
\* been processed from an empty registry, the registry has exactly one entry,
\* under the product name, whose fields are the union of the lines' fields.
C2_CarryOverMerge ==
    (/\ pc = "lines"
     /\ i > Len(lines)
     /\ page_no = 1
     /\ IsMergePage(lines))
    => (/\ DOMAIN products_data = {strip(lines[1])}
        /\ \A f \in NumericFields :
               products_data[strip(lines[1])][f] = MergedField(lines, f))

\* The four numeric fields of a stored record and of a value-set.
FourOf(data) == <<data.calories, data.protein, data.carbs, data.fat>>
AllFour(v) == FoundFields(v) = NumericFields

\* The variant indices a registry of this size can hold for one base name.
Slots(pd) == 1..(Cardinality(DOMAIN pd) + 1)

\* Where the variant chain sends a value-set with all four fields, for a base
\* name in the registry: the base entry on equal signatures, else the lowest
\* existing variant with an equal signature, else the lowest unused variant.
ChainSlot(pd, base, v) ==
    LET matching == {k \in Slots(pd) :
                        /\ VariantName(base, k) \in DOMAIN pd
                        /\ FourOf(pd[VariantName(base, k)]) = FourOf(v)}
        unused == {k \in Slots(pd) : VariantName(base, k) \notin DOMAIN pd}
        lowest(S) == CHOOSE k \in S : \A m \in S : k <= m
    IN IF FourOf(pd[base]) = FourOf(v) THEN base
       ELSE IF matching # {} THEN VariantName(base, lowest(matching))
       ELSE VariantName(base, lowest(unused))

\* C3: a reconcile of a value-set with all four numeric fields, on a base name
\* already in the registry, writes the entry the variant chain selects and
\* adds no other key; with the base entry holding A and Variant 1 holding B,
\* a further A leaves the registry's keys as they are.
C3_VariantChain ==
    [][(/\ ReconcileStep
        /\ AllFour(CurValues)
        /\ CurBase \in DOMAIN products_data)
       => (/\ current_product' = ChainSlot(products_data, CurBase, CurValues)
           /\ DOMAIN products_data' =
                  DOMAIN products_data
                      \cup {ChainSlot(products_data, CurBase, CurValues)}
           /\ HoldsValues(products_data'[current_product'], CurValues)
           /\ FourOf(products_data[CurBase]) = FourOf(CurValues)
                  => DOMAIN products_data' = DOMAIN products_data)]_vars

\* C3 witness: A, B, A has happened on one name: the base entry was written
\* after its Variant 1, both with all four fields, and there is no Variant 2.
C3_Witness ==
    \E b \in DOMAIN products_data :
        /\ VariantName(b, 1) \in DOMAIN products_data
        /\ VariantName(b, 2) \notin DOMAIN products_data
        /\ "N/A" \notin {FourOf(products_data[b])[k] : k \in 1..4}
        /\ "N/A" \notin {FourOf(products_data[VariantName(b, 1)])[k] : k \in 1..4}
        /\ FourOf(products_data[b]) # FourOf(products_data[VariantName(b, 1)])
        /\ products_data[b].last_updated
               > products_data[VariantName(b, 1)].last_updated

\* C4: while a page is processed, the line before the loop's position having
\* none of the five fields (blank lines included) means no current product.
C4_AttributionReset ==
    (/\ pc = "lines"
     /\ i > 1
     /\ ~any_found(Extracted(strip(lines[i - 1]))))
    => current_product = None

C6_AllOrNothing ==
    (pc = "return" /\ outcome \in {"exception", "aborted"})
    => products_data = registry_at_entry

\* All rows of a registry.
AllRows(pd) == {pd[n] : n \in DOMAIN pd}

\* C7: no row of the page being processed is in the file while its lines are
\* processed; a finished page with a nonzero count has had its one save, of
\* the whole registry, and one with a zero count none; and the file never
\* holds rows of a page that was processed only in part.
C7_PersistenceTrigger ==
    /\ pc = "lines" => \A r \in csv_file : r.last_updated # page_no
    /\ (pc = "return" /\ outcome \notin {"exception", "aborted"})
           => /\ products_found_on_page > 0
                     <=> outcome \in {"saved", "save_failed"}
              /\ products_found_on_page = 0 <=> outcome = "nothing"
    /\ (pc = "return" /\ outcome = "saved") => csv_file = AllRows(products_data)
    /\ \A r \in csv_file : history[r.last_updated] # "aborted"

\* An exception was raised in the poll cycle under way.
CycleFailed ==
    \/ pc = "error"
    \/ pc = "return" /\ outcome \in {"exception", "aborted", "save_failed"}

\* C8: the loop is stopped only by an interruption, and after a failure in a
\* poll cycle it polls again unless it is interrupted first.
C8_LoopSurvives ==
    /\ [](pc = "stopped" => interrupted)
    /\ CycleFailed ~> (pc = "poll" \/ pc = "stopped")

\* C8 witness: the loop is polling again after an invocation that failed.
C8_Witness ==
    /\ pc = "poll"
    /\ \E k \in 1..Len(history) :
           history[k] \in {"exception", "aborted", "save_failed"}

\* C9: a save that fails leaves the registry as it is, no step of the running
\* loop removes a registry key, and a save that succeeds writes every row of
\* the registry, so also those of a page whose save failed.
C9_SaveFailureKeepsData ==
    [][/\ (pc = "lines" /\ outcome' = "save_failed")
              => products_data' = products_data
       /\ pc' # "stopped"
              => /\ DOMAIN products_data \subseteq DOMAIN products_data'
                 /\ \A n \in DOMAIN products_data :
                        products_data'[n].last_updated
                            >= products_data[n].last_updated
       /\ (pc = "lines" /\ outcome' = "saved")
              => /\ products_data' = products_data
                 /\ csv_file' = AllRows(products_data)]_vars

\* C9 witness: a save succeeded after the save of the page before had failed,
\* and the file holds a row that page produced.
C9_Witness ==
    /\ pc = "return"
    /\ page_no = 2
    /\ history = <<"save_failed", "saved">>
    /\ \E r \in csv_file : r.last_updated = 1

\* C10: a data-bearing line met without a current product, for which name
\* inference finds no name, leaves the registry, the touched-count and the
\* absent current product as they are.
C10_AttributionFailureDrops ==
    [][(/\ AtLine
        /\ any_found(CurValues)
        /\ current_product = None
        /\ find_product_name(lines, i) = None
        /\ pc' # "stopped")
       => (/\ products_data' = products_data
           /\ products_found_on_page' = products_found_on_page
           /\ current_product' = None
           /\ pc' = "lines"
           /\ i' = i + 1)]_vars

\* C10 witness: the loop has passed a data-bearing line and has no current
\* product, on a page where nothing was attributed.
C10_Witness ==
    /\ pc = "lines"
    /\ i > 1
    /\ any_found(Extracted(strip(lines[i - 1])))
    /\ current_product = None
    /\ products_found_on_page = 0
    /\ products_data = registry_at_entry

\* ================================================= the name inference alone
\* find_product_name as process_page_content calls it (lines 179-182): on a
\* data-bearing line, with no current product. The page texts are longer
\* than those of Spec, so that both ends of the window are inside the page.
MaxNameLines == 6

OtherNameLine == "Energy Bar"

NameVocabulary == {BlankLine, NameLine, OtherNameLine, CaloriesLine}

NameTexts == UNION {[1..n -> NameVocabulary] : n \in 1..MaxNameLines}

NameInit ==
    /\ pc = "infer"
    /\ lines \in NameTexts
    /\ i \in 1..MaxNameLines
    /\ i <= Len(lines)
    /\ any_found(Extracted(strip(lines[i])))
    /\ current_product = None
    /\ browser_url = "u1"
    /\ nav_count = 0
    /\ last_url = None
    /\ current_url = "u1"
    /\ products_data = EmptyRegistry
    /\ csv_file = {}
    /\ products_found_on_page = 0
    /\ result = 0
    /\ history = <<"running">>
    /\ registry_at_entry = EmptyRegistry
    /\ interrupted = FALSE

\* Lines 181-182: current_product = find_product_name(lines, i).
InferName ==
    /\ pc = "infer"
    /\ current_product = None
    /\ current_product' = find_product_name(lines, i)
    /\ pc' = "inferred"
    /\ UNCHANGED <<browser_url, nav_count, last_url, current_url,
                   products_data, csv_file, lines, i, products_found_on_page,
                   result, history, registry_at_entry, interrupted>>

NameNext == InferName

NameSpec == NameInit /\ [][NameNext]_vars

\* A qualifying candidate, in the words of the claims: trimmed, non-empty,
\* longer than three characters, without a digit.
Qualifies(line) ==
    LET t == strip(line)
    IN t # "" /\ Len(t) > 3 /\ ~has_digit(t)

\* The qualifying lines among the window_size lines before the data line.
QualifyingBefore ==
    {k \in Max(1, i - window_size)..(i - 1) : Qualifies(lines[k])}

\* The qualifying lines among the lines after the data line, up to `reach`
\* lines away.
QualifyingAfter(reach) ==
    {k \in (i + 1)..Min(Len(lines), i + reach) : Qualifies(lines[k])}

\* The line of S nearest to the data line.
Closest(S) ==
    CHOOSE k \in S : \A m \in S : (k - i) * (k - i) <= (m - i) * (m - i)

\* C11: the name inferred is the qualifying candidate closest to the data
\* line within the scan that produced candidates, the scan of the lines
\* before taking precedence; there is no name only when neither scan has a
\* candidate. (The forward scan is taken as far as the code reads, four
\* lines; its reach is the subject of C12.)
C11_ClosestCandidate ==
    pc = "inferred" =>
        IF QualifyingBefore # {}
        THEN current_product = strip(lines[Closest(QualifyingBefore)])
        ELSE IF QualifyingAfter(window_size - 1) # {}
        THEN current_product =
                 strip(lines[Closest(QualifyingAfter(window_size - 1))])
        ELSE current_product = None

\* C12: with no candidate in the window_size lines before the data line,
\* every one of the window_size lines after it is considered: the name is
\* one of the qualifying lines among them, so a sole qualifying line at
\* i + window_size is returned.
C12_ForwardWindow ==
    (pc = "inferred" /\ QualifyingBefore = {}
                     /\ QualifyingAfter(window_size) # {})
        => \E k \in QualifyingAfter(window_size) :
               current_product = strip(lines[k])

\* ===================================================== claims on the registry
ValueFields == NumericFields \cup {"serving_size"}

\* The keys whose record a step created or changed.
Written == {n \in DOMAIN products_data' :
               n \notin DOMAIN products_data
               \/ products_data'[n] # products_data[n]}

\* The record stored under key is the one a reconcile of the value-set v on
\* the page with navigation identifier url writes.
WellShaped(rec, key, v, url) ==
    /\ rec.name = key
    /\ rec.source_url = url
    /\ \A f \in ValueFields :
           /\ rec[f] = IF v[f] # None THEN v[f] ELSE "N/A"
           /\ rec[f] # ""

\* C13: every record a reconcile writes has its name field equal to the key
\* it is stored under, its source_url equal to the navigation identifier the
\* page is processed under, and each of calories, protein, carbs, fat and
\* serving_size equal to the value extracted from the current line or, when
\* none was found, to the sentinel 'N/A', never empty.
C13_RecordShape ==
    [][ReconcileStep =>
          /\ \E key \in DOMAIN products_data' :
                 /\ products_data'[key].last_updated = page_no
                 /\ WellShaped(products_data'[key], key, CurValues,
                               current_url)
          /\ \A key \in Written :
                 WellShaped(products_data'[key], key, CurValues,
                            current_url)]_vars

\* C13 witness: a reconcile has stored a record with a found field and an
\* absent one, on a page reached by a navigation.
C13_Witness ==
    /\ pc = "lines"
    /\ i > 1
    /\ current_url = "u2"
    /\ \E key \in DOMAIN products_data :
           /\ products_data[key].source_url = "u2"
           /\ products_data[key].calories = "200"
           /\ products_data[key].protein = "N/A"

\* ======================================================== the store alone
\* Values are modelled by the text Python prints for them, which is all the
\* code uses them for (the f-strings of lines 186, 192, 199 and to_csv): the
\* int 200 is "200", the float 200.0 is "200.0", the float NaN is "nan".

\* The cells pandas.read_csv reads as missing (its default na_values), as far
\* as the program can write them.
NaValues == {"", "N/A"}

\* The numbers the extractor can store.
Numbers ==
    {extract_number(l, f) : l \in Vocabulary, f \in NumericFields} \ {None}

\* What read_csv makes of one cell, given the cells of its column: a missing
\* cell is NaN; a column of numbers is int64 when none is missing and float64
\* otherwise; any other cell stays the text it is.
read_csv_cell(cell, column) ==
    IF cell \in NaValues THEN "nan"
    ELSE IF /\ \A c \in column : c \in NaValues \cup Numbers
            /\ \E c \in column : c \in NaValues
         THEN cell \o ".0"
         ELSE cell

\* Lines 129-138, on the rows of the file; no file and no rows give {}.
load_existing_data(rows) ==
    [n \in {r.name : r \in rows} |->
        LET row == CHOOSE r \in rows : r.name = n
            cell(f) == read_csv_cell(row[f], {r[f] : r \in rows})
        IN [row EXCEPT !.calories = cell("calories"),
                       !.protein = cell("protein"),
                       !.carbs = cell("carbs"),
                       !.fat = cell("fat"),
                       !.serving_size = cell("serving_size")]]

\* The data-bearing lines of the vocabulary.
DataLines == {l \in Vocabulary : any_found(Extracted(strip(l)))}

\* The registry after the reconcile of line l under the name of NameLine, in
\* invocation `now`.
Reconciled(pd, l, now) ==
    LET v == Extracted(strip(l))
        name == effective_name(pd, strip(NameLine), v)
    IN upsert(pd, name, product_entry(name, v, now, "u1"))

\* The registries one or two such reconciles build from the empty one.
StoreRegistries ==
    {Reconciled(EmptyRegistry, a, 1) : a \in DataLines}
        \cup {Reconciled(Reconciled(EmptyRegistry, a, 1), b, 1) :
                  a \in DataLines, b \in DataLines}

\* process_page_content at line 232, about to save what it found.
StoreInit ==
    /\ pc = "save"
    /\ products_data \in StoreRegistries
    /\ csv_file = {}
    /\ browser_url = "u1"
    /\ nav_count = 0
    /\ last_url = None
    /\ current_url = "u1"
    /\ lines = <<>>
    /\ i = 1
    /\ current_product = None
    /\ products_found_on_page = 1
    /\ result = 0
    /\ history = <<"running">>
    /\ registry_at_entry = EmptyRegistry
    /\ interrupted = FALSE

\* Lines 232-233 with 141-146: the save succeeds.
StoreSave ==
    /\ pc = "save"
    /\ csv_file' = save_to_csv(products_data)
    /\ history' = Ended("saved")
    /\ pc' = "return"
    /\ UNCHANGED <<browser_url, nav_count, last_url, current_url,
                   products_data, page_vars, result, registry_at_entry,
                   interrupted>>

\* Line 244 of a new run of the script: products_data = load_existing_data(),
\* which reads the file or fails in read_csv and returns {}.
StoreStart ==
    /\ pc = "stopped"
    /\ \/ /\ products_data' = load_existing_data(csv_file)
          /\ pc' = "loaded"
       \/ /\ products_data' = EmptyRegistry
          /\ pc' = "load_failed"
    /\ interrupted' = FALSE
    /\ UNCHANGED <<browser_url, nav_count, last_url, current_url, csv_file,
                   page_vars, result, history, registry_at_entry>>

\* Lines 184-221 in the first invocation of the new run: a data-bearing line
\* of the product of NameLine is reconciled with the loaded registry.
StoreReconcile ==
    /\ pc \in {"loaded", "load_failed"}
    /\ \E l \in DataLines :
           /\ lines' = <<NameLine, l>>
           /\ products_data' = Reconciled(products_data, l, page_no + 1)
    /\ pc' = "reconciled"
    /\ UNCHANGED <<browser_url, nav_count, last_url, current_url, csv_file,
                   i, current_product, products_found_on_page, result,
                   history, registry_at_entry, interrupted>>

StoreNext ==
    \/ StoreSave
    \/ Interrupt
    \/ StoreStart
    \/ StoreReconcile

StoreSpec == StoreInit /\ [][StoreNext]_vars

\* The registry whose records are the rows of the file, as they were saved.
RegistryOf(rows) ==
    [n \in {r.name : r \in rows} |-> CHOOSE r \in rows : r.name = n]

\* C14: loading after a save yields a registry with the saved keys and, under
\* each key, a record equal field for field to the saved one; consequently
\* the reconcile of any line after the restart goes to the entry it would
\* have gone to before it.
C14_StoreRoundTrip ==
    pc = "loaded" =>
        /\ DOMAIN products_data = {r.name : r \in csv_file}
        /\ \A r \in csv_file : products_data[r.name] = r
        /\ \A l \in DataLines :
               DOMAIN Reconciled(products_data, l, 2)
                   = DOMAIN Reconciled(RegistryOf(csv_file), l, 2)

\* ------------------------------------------------- claims on the registry,
\* under Spec: the registry starts empty and is never reloaded.

\* The four numeric values of a value-set.
FourValues(v) == <<v.calories, v.protein, v.carbs, v.fat>>

\* C15: the four numeric fields stored under a key never change once the key
\* exists, and a reconcile writes to a key that exists only when the new
\* value-set has all four numeric values and they are the stored ones.
C15_NoSilentOverwrite ==
    [][/\ \A n \in DOMAIN products_data \cap DOMAIN products_data' :
              FourOf(products_data'[n]) = FourOf(products_data[n])
       /\ (ReconcileStep /\ current_product' \in DOMAIN products_data)
              => /\ AllFour(CurValues)
                 /\ FourOf(products_data[current_product'])
                        = FourValues(CurValues)]_vars

\* C15 witness: in the second invocation a record of the first one has been
\* overwritten.
C15_Witness ==
    /\ pc = "lines"
    /\ page_no = 2
    /\ \E n \in DOMAIN registry_at_entry \cap DOMAIN products_data :
           /\ registry_at_entry[n].last_updated = 1
           /\ products_data[n].last_updated = 2

\* The names find_product_name can return on the pages of Spec.
InferredNames == {strip(l) : l \in {m \in Vocabulary : is_candidate(m)}}

\* C16: every registry key is an inferred name or an inferred name followed
\* by exactly one " (Variant N)" with N >= 1; no key has the form
\* 'X (Variant i) (Variant j)'.
C16_NoNestedVariants ==
    \A key \in DOMAIN products_data :
        \/ key \in InferredNames
        \/ \E base \in InferredNames, N \in Slots(products_data) :
               key = VariantName(base, N)

\* The names a key of the registry can be a variant of: the keys and the
\* inferred names, and their variants (a key whose base is missing has a
\* base that is none of the keys).
BaseNames(pd) ==
    LET known == DOMAIN pd \cup InferredNames
    IN known \cup {VariantName(b, k) : b \in known, k \in Slots(pd)}

\* C17: if '<B> (Variant N)' is a key of the registry, then so are B and
\* every '<B> (Variant k)' with 1 <= k < N.
C17_ContiguousVariants ==
    \A B \in BaseNames(products_data), N \in Slots(products_data) :
        VariantName(B, N) \in DOMAIN products_data
            => /\ B \in DOMAIN products_data
               /\ \A k \in 1..(N - 1) :
                      VariantName(B, k) \in DOMAIN products_data

\* C17 witness: the registry holds a second variant of a name.
C17_Witness ==
    \E B \in DOMAIN products_data :
        VariantName(B, 2) \in DOMAIN products_data

\* C18: the reconcile of an attributed data-bearing line creates or
\* overwrites exactly one entry, the one under the effective name, and leaves
\* every other entry as it was; no step of the running process removes an
\* entry, so the key set only grows.
C18_ReconcileFrame ==
    [][/\ ReconcileStep
          => \E name \in DOMAIN products_data' :
                 /\ name = current_product'
                 /\ products_data'[name].last_updated = page_no
                 /\ DOMAIN products_data' = DOMAIN products_data \cup {name}
                 /\ \A n \in DOMAIN products_data \ {name} :
                        products_data'[n] = products_data[n]
       /\ ~ReconcileStep /\ ~interrupted'
          => products_data' = products_data]_vars

\* C18 witness: in the second invocation a reconcile has written one entry
\* and an entry of the first invocation is as it was.
C18_Witness ==
    /\ pc = "lines"
    /\ page_no = 2
    /\ \E n \in DOMAIN registry_at_entry, m \in DOMAIN products_data :
           /\ n # m
           /\ products_data[n] = registry_at_entry[n]
           /\ products_data[m].last_updated = 2

\* ------------------------------------------------- claims on the polling loop
\* The loop is between the comparison of line 259 and the assignment of line
\* 264: it is about to invoke the page processor, or is inside it.
InCycle == pc \in {"wait", "process", "lines", "return"}

\* C19: the page processor is invoked only in a poll cycle whose navigation
\* identifier differs from the last one recorded; an invocation runs to its
\* return before the loop polls again; and once an invocation has returned,
\* its identifier is the recorded one and no poll starts another invocation
\* while the browser stays on it.
C19_OneInvocationPerChange ==
    /\ [](InCycle => current_url # last_url)
    /\ [][/\ page_no' > page_no => pc = "process" /\ current_url # last_url
          /\ (pc \in {"process", "lines"} /\ ~interrupted')
                => pc' \in {"lines", "return"}
          /\ (pc = "return" /\ pc' # "return" /\ ~interrupted')
                => pc' = "sleep" /\ last_url' = current_url
          /\ (pc = "poll" /\ browser_url = last_url /\ ~interrupted')
                => pc' \in {"poll", "sleep", "error"}]_vars

\* C19 witness: after an invocation has returned for the URL the browser is
\* still on, the loop has polled again and sleeps without invoking it.
C19_Witness ==
    /\ pc = "sleep"
    /\ page_no = 1
    /\ outcome # "running"
    /\ last_url = browser_url
    /\ current_url = browser_url
    /\ nav_count = 0
    /\ products_found_on_page = 0
    /\ lines = <<>>

====
